---- MODULE Spec2Model ----
(***************************************************************************)
(* Model of DBHelper.py: a connection pool, the generic execute_query      *)
(* helper and the table helpers built on it, called by concurrent callers  *)
(* against one MySQL database.                                             *)
(*                                                                         *)
(* The driver and the server are not part of the repository.  They are    *)
(* modelled by what the code relies on: a pool of pool_size connections,   *)
(* statements that take effect at cursor.execute (reads, DDL) or at        *)
(* conn.commit (inserts, autocommit being off), the PRIMARY KEY and NOT    *)
(* NULL constraints of the schema, and a failure that may strike any step  *)
(* of the try body.  cursor.close() and conn.close() are taken to succeed. *)
(***************************************************************************)
EXTENDS Naturals, Sequences, FiniteSets

(* ---------------------------- bounds ---------------------------------- *)
MaxTrapedCalls == 2
MaxRows == 2

(* ----------------------- program constants ---------------------------- *)
pool_size == 4

\* the callers: one more than the pool has connections, so that it can run out
Callers == 1..(pool_size + 1)

(* ---------------------------- inputs ---------------------------------- *)
NULL == "NULL"
UIDs == {"u1", "u2"}
PWs == {"p1", "p2"}
Emails == {"e1", NULL}
Msgs == {"m1", "m2"}

(* ------------------------- Python values ------------------------------ *)
PyNone == [t |-> "none"]
PyBool(b) == [t |-> "bool", v |-> b]
PyInt(n) == [t |-> "int", v |-> n]
PyTuple(s) == [t |-> "tuple", v |-> s]
PyList(s) == [t |-> "list", v |-> s]

\* Python truth value of x (bool(x), `if x`, `x and ...`, `x or ...`)
Truthy(x) ==
    CASE x.t = "none" -> FALSE
      [] x.t = "bool" -> x.v
      [] x.t = "int" -> x.v # 0
      [] x.t = "tuple" -> Len(x.v) > 0
      [] x.t = "list" -> Len(x.v) > 0

IsTuple(x) == x.t = "tuple"

\* count_result[0]: the first column of a fetched row, as a Python value
First(x) == PyInt(x.v[1])

\* the [detail, n] list a pair helper returns
PyPair(d, n) == [t |-> "pair", detail |-> d, count |-> n]

(* --------------------- helpers and their statements ------------------- *)
Call0(op) == [op |-> op, args |-> <<>>]
NoCall == Call0("none")

\* every helper call a caller can make, with its arguments
Calls ==
    {Call0("init_db"), Call0("get_traped_data"), Call0("get_user_data"),
     Call0("get_feedback_data")}
    \cup {[op |-> "check_if_user_exists", args |-> <<u>>] : u \in UIDs}
    \cup {[op |-> "insert_into_user", args |-> <<u, e, p>>] :
              u \in UIDs, e \in Emails, p \in PWs}
    \cup {[op |-> "check_user_credential", args |-> <<u, p>>] : u \in UIDs, p \in PWs}
    \cup {[op |-> "insert_into_traped", args |-> <<o, "app", "v1", "vp">>] : o \in UIDs}
    \cup {[op |-> "get_traped_data_for_owner", args |-> <<u>>] : u \in UIDs}
    \cup {[op |-> "save_feedback", args |-> <<"u1", "n1", "e1", m>>] : m \in Msgs}

PairHelpers ==
    {"get_traped_data_for_owner", "get_traped_data", "get_user_data", "get_feedback_data"}
InsertHelpers == {"insert_into_user", "insert_into_traped", "save_feedback"}

\* (variant: name and email bound in the wrong order)
FeedbackParamsSwapped(args) == <<args[1], args[3], args[2], args[4]>>

\* the parameters save_feedback binds to its INSERT
FeedbackParams(args) == <<args[1], args[2], args[3], args[4]>>

\* one execute_query(query, params, fetchall, commit) call
Q(sql, params, fetchall, commit) ==
    [sql |-> sql, params |-> params, fetchall |-> fetchall, commit |-> commit]

\* the execute_query calls of a helper, in the order the helper makes them
Statements(cl) ==
    CASE cl.op = "init_db" ->
            << Q("CREATE_USERS", <<>>, FALSE, TRUE),
               Q("CREATE_TRAPED", <<>>, FALSE, TRUE),
               Q("CREATE_MESSAGE", <<>>, FALSE, TRUE) >>
      [] cl.op = "check_if_user_exists" ->
            << Q("SELECT_1_USERS_BY_UID", cl.args, TRUE, FALSE) >>
      [] cl.op = "insert_into_user" ->
            << Q("INSERT_USERS", cl.args, FALSE, TRUE) >>
      [] cl.op = "check_user_credential" ->
            << Q("SELECT_PASSWORD_USERS_BY_UID", <<cl.args[1]>>, FALSE, FALSE) >>
      [] cl.op = "insert_into_traped" ->
            << Q("INSERT_TRAPED", cl.args, FALSE, TRUE) >>
      [] cl.op = "get_traped_data_for_owner" ->
            << Q("SELECT_TRAPED_BY_OWNER", cl.args, TRUE, FALSE),
               Q("COUNT_TRAPED_BY_OWNER", cl.args, FALSE, FALSE) >>
      [] cl.op = "get_traped_data" ->
            << Q("SELECT_TRAPED", <<>>, TRUE, FALSE),
               Q("COUNT_TRAPED", <<>>, FALSE, FALSE) >>
      [] cl.op = "get_user_data" ->
            << Q("SELECT_USERS", <<>>, TRUE, FALSE),
               Q("COUNT_USERS", <<>>, FALSE, FALSE) >>
      [] cl.op = "save_feedback" ->
            << Q("INSERT_MESSAGE", FeedbackParams(cl.args), FALSE, TRUE) >>
      [] cl.op = "get_feedback_data" ->
            << Q("SELECT_MESSAGE", <<>>, TRUE, FALSE),
               Q("COUNT_MESSAGE", <<>>, FALSE, FALSE) >>

(* ------------------------------ state --------------------------------- *)
VARIABLES
    tables,        \* names of the tables that exist in the database
    USERS,         \* committed rows <<UID, EMAIL, PASSWORD>>
    TRAPED,        \* committed rows <<OWNER, APP, UID, PASSWORD>>
    MESSAGE,       \* committed rows <<UID, NAME, EMAIL, MSG>>
    checkedOut,    \* connections of the pool that are handed out
    pc,            \* per caller: where it stands in execute_query
    call,          \* per caller: the helper call it is in (or made last)
    q,             \* per caller: index of the helper's current statement
    conn,          \* per caller: execute_query's conn is set
    cursor,        \* per caller: execute_query's cursor is set
    pending,       \* per caller: rows inserted in its open transaction
    rs,            \* per caller: the result set its cursor holds
    result,        \* per caller: execute_query's result
    detail,        \* per caller: a pair helper's detail
    ret,           \* per caller: what the helper returned
    exc,           \* per caller: the exception of this execute_query: "none",
                   \* "handled" by an except clause, or its kind while it propagates
    log,           \* per caller: the log lines its current call wrote
    hist,          \* per caller: what is recorded about its call, for the properties
    passed,        \* <<uid, pas>> of the insert_into_user calls that have returned
    nTrapedCalls,  \* insert_into_traped calls made
    nTrapedStored  \* insert_into_traped calls whose row was stored

db == <<tables, USERS, TRAPED, MESSAGE>>
audit == <<passed, nTrapedCalls, nTrapedStored>>
vars == <<tables, USERS, TRAPED, MESSAGE, checkedOut, pc, call, q, conn, cursor,
          pending, rs, result, detail, ret, exc, log, hist, passed,
          nTrapedCalls, nTrapedStored>>

\* the statement caller c is running
Cur(c) == Statements(call[c])[q[c]]

Quiet(c) == pc[c] \in {"idle", "done"}

(* --------------------------- the database ----------------------------- *)
IsCreate(sql) == sql \in {"CREATE_USERS", "CREATE_TRAPED", "CREATE_MESSAGE"}
IsInsert(sql) == sql \in {"INSERT_USERS", "INSERT_TRAPED", "INSERT_MESSAGE"}

TableOf(sql) ==
    CASE sql \in {"CREATE_USERS", "INSERT_USERS", "SELECT_1_USERS_BY_UID",
                  "SELECT_PASSWORD_USERS_BY_UID", "SELECT_USERS", "COUNT_USERS"} -> "USERS"
      [] sql \in {"CREATE_TRAPED", "INSERT_TRAPED", "SELECT_TRAPED_BY_OWNER",
                  "COUNT_TRAPED_BY_OWNER", "SELECT_TRAPED", "COUNT_TRAPED"} -> "TRAPED"
      [] sql \in {"CREATE_MESSAGE", "INSERT_MESSAGE", "SELECT_MESSAGE",
                  "COUNT_MESSAGE"} -> "MESSAGE"

Rows(t) ==
    CASE t = "USERS" -> USERS
      [] t = "TRAPED" -> TRAPED
      [] t = "MESSAGE" -> MESSAGE

\* the rows of s whose first column is k (WHERE UID=%s, WHERE OWNER=%s)
Where(s, k) == SelectSeq(s, LAMBDA r : r[1] = k)

\* (variant: UID declared without PRIMARY KEY)
DuplicateKeyOff(sql, params) == FALSE

\* UID VARCHAR(255) PRIMARY KEY: a USERS row with this UID is already stored
DuplicateKey(sql, params) ==
    sql = "INSERT_USERS" /\ Len(Where(USERS, params[1])) > 0

\* every column is NOT NULL
NullColumn(sql, params) ==
    IsInsert(sql) /\ \E i \in 1..Len(params) : params[i] = NULL

\* the server rejects the statement
StatementError(sql, params) ==
    \/ ~IsCreate(sql) /\ TableOf(sql) \notin tables
    \/ NullColumn(sql, params)
    \/ DuplicateKey(sql, params)

\* an INSERT of a USERS row waits for an uncommitted insert of the same UID
Blocked(c, sql, params) ==
    sql = "INSERT_USERS" /\
    \E d \in Callers \ {c} : Len(Where(pending[d], params[1])) > 0

\* the rows a SELECT produces
ResultSet(sql, params) ==
    CASE sql = "SELECT_1_USERS_BY_UID" ->
            [i \in 1..Len(Where(USERS, params[1])) |-> <<1>>]
      [] sql = "SELECT_PASSWORD_USERS_BY_UID" ->
            [i \in 1..Len(Where(USERS, params[1])) |-> <<Where(USERS, params[1])[i][3]>>]
      [] sql = "SELECT_TRAPED_BY_OWNER" -> Where(TRAPED, params[1])
      [] sql = "COUNT_TRAPED_BY_OWNER" -> << <<Len(Where(TRAPED, params[1]))>> >>
      [] sql \in {"SELECT_TRAPED", "SELECT_USERS", "SELECT_MESSAGE"} -> Rows(TableOf(sql))
      [] sql \in {"COUNT_TRAPED", "COUNT_USERS", "COUNT_MESSAGE"} ->
            << <<Len(Rows(TableOf(sql)))>> >>
      [] OTHER -> << >>

(* ------------------------------ logging ------------------------------- *)
\* A log line is kept as its level; the helper that wrote it is the caller's call.
ErrorKinds == {"mysql", "other"}

\* the level of the line that execute_query's except clause for this kind logs:
\* "MySQL error occurred" and "An unexpected error occurred" are both errors
ExceptLine(kind) == IF kind = "mysql" THEN "error" ELSE "error"

\* (variants: without `except Exception`; without any except clause)
CaughtMysqlOnly(kind) == kind = "mysql"
CaughtNone(kind) == FALSE

\* execute_query has an except clause for this kind of exception
Caught(kind) == kind = "mysql" \/ kind = "other"

\* the line a helper logs once its execute_query calls are over: "All necessary
\* tables checked/created.", "Result", "User added", "User trapped", "Feedback saved"
HelperLog(cl) ==
    CASE cl.op = "init_db" -> <<"info">>
      [] cl.op = "check_if_user_exists" -> <<"debug">>
      [] cl.op = "insert_into_user" -> <<"info">>
      [] cl.op = "insert_into_traped" -> <<"info">>
      [] cl.op = "save_feedback" -> <<"info">>
      [] OTHER -> << >>

(* ----------------------- what the helpers return ---------------------- *)
PyRaised == [t |-> "raised"]

\* (variant: isinstance test inverted)
OwnerCountNotTuple(r) == IF Truthy(r) /\ ~IsTuple(r) THEN First(r) ELSE PyInt(0)

\* count of get_traped_data_for_owner
OwnerCount(r) == IF Truthy(r) /\ IsTuple(r) THEN First(r) ELSE PyInt(0)

\* (variant: isinstance test inverted)
CountOfNotTuple(r) == IF ~IsTuple(r) /\ Truthy(r) THEN r ELSE PyInt(0)

\* n of get_traped_data, get_user_data and get_feedback_data
CountOf(r) == IF IsTuple(r) THEN First(r) ELSE IF Truthy(r) THEN r ELSE PyInt(0)

\* (variant: the comparison with pas is lost)
CredentialOfAny(r, pas) == IF Truthy(r) THEN PyBool(TRUE) ELSE r

\* result and result[0] == pas
CredentialOf(r, pas) == IF Truthy(r) THEN PyBool(r.v[1] = pas) ELSE r

\* the helper's return value, from its detail d and its last result r
Returns(cl, d, r) ==
    CASE cl.op = "check_if_user_exists" -> PyBool(Truthy(r))
      [] cl.op = "check_user_credential" -> CredentialOf(r, cl.args[2])
      [] cl.op = "get_traped_data_for_owner" -> PyPair(d, OwnerCount(r))
      [] cl.op \in {"get_traped_data", "get_user_data", "get_feedback_data"} ->
            PyPair(d, CountOf(r))
      [] OTHER -> PyNone

(* ------------------------------- Init --------------------------------- *)
Hist0 ==
    [stored |-> FALSE, failed |-> FALSE, wrote |-> FALSE,
     seen |-> {}, known |-> {},
     fbStage |-> 0, fbBase |-> 0, fbRow |-> <<>>, fbClean |-> FALSE]

Init ==
    /\ tables = {}
    /\ USERS = <<>>
    /\ TRAPED = <<>>
    /\ MESSAGE = <<>>
    /\ checkedOut = 0
    /\ pc = [c \in Callers |-> "idle"]
    /\ call = [c \in Callers |-> NoCall]
    /\ q = [c \in Callers |-> 1]
    /\ conn = [c \in Callers |-> FALSE]
    /\ cursor = [c \in Callers |-> FALSE]
    /\ pending = [c \in Callers |-> <<>>]
    /\ rs = [c \in Callers |-> <<>>]
    /\ result = [c \in Callers |-> PyNone]
    /\ detail = [c \in Callers |-> PyNone]
    /\ ret = [c \in Callers |-> PyNone]
    /\ exc = [c \in Callers |-> "none"]
    /\ log = [c \in Callers |-> <<>>]
    /\ hist = [c \in Callers |-> Hist0]
    /\ passed = {}
    /\ nTrapedCalls = 0
    /\ nTrapedStored = 0

(* ---------------------- what is recorded of a call -------------------- *)
\* the calls get_feedback_data, save_feedback, get_feedback_data made in a row by
\* one caller: the stage of that sequence that call cl opens
FbStage(c, cl) ==
    CASE cl.op = "get_feedback_data" ->
            IF pc[c] = "done" /\ call[c].op = "save_feedback" /\ hist[c].fbStage = 2
            THEN 3 ELSE 1
      [] cl.op = "save_feedback" ->
            IF pc[c] = "done" /\ call[c].op = "get_feedback_data"
               /\ hist[c].fbStage \in {1, 3}
            THEN 2 ELSE 0
      [] OTHER -> 0

\* the passwords stored with uid by insert_into_user calls that have returned
Added(uid) ==
    {p \in PWs :
        /\ \E i \in 1..Len(USERS) : USERS[i][1] = uid /\ USERS[i][3] = p
        /\ ~\E d \in Callers : /\ ~Quiet(d)
                                /\ call[d].op = "insert_into_user"
                                /\ call[d].args[1] = uid
                                /\ hist[d].stored}

HistOfCall(c, cl) ==
    LET stage == FbStage(c, cl)
        checks == cl.op \in {"check_if_user_exists", "check_user_credential"}
    IN  [stored |-> FALSE, failed |-> FALSE, wrote |-> FALSE,
         seen |-> IF checks THEN {p \in PWs : <<cl.args[1], p>> \in passed} ELSE {},
         known |-> IF checks THEN Added(cl.args[1]) ELSE {},
         fbStage |-> stage,
         fbBase |-> IF stage = 2 THEN ret[c].count.v
                    ELSE IF stage = 3 THEN hist[c].fbBase ELSE 0,
         fbRow |-> IF stage = 2 THEN cl.args
                   ELSE IF stage = 3 THEN hist[c].fbRow ELSE <<>>,
         fbClean |-> IF stage = 2 THEN ~hist[c].failed
                     ELSE IF stage = 3 THEN hist[c].fbClean /\ hist[c].stored ELSE FALSE]

\* caller d has run the first statement of a pair helper and not yet the second
BetweenQueries(d) ==
    /\ call[d].op \in PairHelpers
    /\ ~Quiet(d)
    /\ \/ q[d] = 1 /\ pc[d] \in {"fetch", "finally"} /\ cursor[d] /\ ~hist[d].failed
       \/ q[d] = 2 /\ pc[d] \in {"acquire", "cursor", "execute"}

(* --------------------------- a helper call ---------------------------- *)
\* caller c calls helper cl, which enters its first execute_query
Call(c, cl) ==
    /\ Quiet(c)
    /\ cl \in Calls
    /\ cl.op = "insert_into_traped" => nTrapedCalls < MaxTrapedCalls
    /\ cl.op \in InsertHelpers => Len(USERS) + Len(TRAPED) + Len(MESSAGE) < MaxRows
    /\ pc' = [pc EXCEPT ![c] = "acquire"]
    /\ call' = [call EXCEPT ![c] = cl]
    /\ q' = [q EXCEPT ![c] = 1]
    /\ conn' = [conn EXCEPT ![c] = FALSE]
    /\ cursor' = [cursor EXCEPT ![c] = FALSE]
    /\ rs' = [rs EXCEPT ![c] = <<>>]
    /\ result' = [result EXCEPT ![c] = PyNone]
    /\ detail' = [detail EXCEPT ![c] = PyNone]
    /\ ret' = [ret EXCEPT ![c] = PyNone]
    /\ exc' = [exc EXCEPT ![c] = "none"]
    /\ log' = [log EXCEPT ![c] = IF cl.op = "check_if_user_exists"
                                 THEN <<"debug">>
                                 ELSE <<>>]
    /\ hist' = [hist EXCEPT ![c] = HistOfCall(c, cl)]
    /\ nTrapedCalls' = IF cl.op = "insert_into_traped" THEN nTrapedCalls + 1
                       ELSE nTrapedCalls
    /\ UNCHANGED <<db, checkedOut, pending, passed, nTrapedStored>>

(* ---------------------------- execute_query --------------------------- *)
\* an exception of this kind is thrown in the try body, after `lines` were logged
Throw(c, kind, lines) ==
    /\ pc' = [pc EXCEPT ![c] = "finally"]
    /\ exc' = [exc EXCEPT ![c] = IF Caught(kind) THEN "handled" ELSE kind]
    /\ log' = [log EXCEPT ![c] = IF Caught(kind) THEN lines \o <<ExceptLine(kind)>>
                                 ELSE lines]
    /\ hist' = [hist EXCEPT ![c].failed = TRUE]

\* conn = get_connection(): the pool hands out a connection
GetConnectionOk(c) ==
    /\ pc[c] = "acquire"
    /\ checkedOut < pool_size
    /\ checkedOut' = checkedOut + 1
    /\ conn' = [conn EXCEPT ![c] = TRUE]
    /\ pc' = [pc EXCEPT ![c] = "cursor"]
    /\ UNCHANGED <<db, call, q, cursor, pending, rs, result, detail, ret, exc, log,
                   hist, audit>>

\* get_connection() logs and re-raises: the pool is exhausted or the server is away
GetConnectionFail(c, kind) ==
    /\ pc[c] = "acquire"
    /\ kind \in ErrorKinds
    /\ Throw(c, kind, IF kind = "mysql"
                      THEN log[c] \o <<"error">>
                      ELSE log[c])
    /\ UNCHANGED <<db, checkedOut, call, q, conn, cursor, pending, rs, result, detail,
                   ret, audit>>

\* cursor = conn.cursor()
CursorOk(c) ==
    /\ pc[c] = "cursor"
    /\ cursor' = [cursor EXCEPT ![c] = TRUE]
    /\ pc' = [pc EXCEPT ![c] = "execute"]
    /\ UNCHANGED <<db, checkedOut, call, q, conn, pending, rs, result, detail, ret, exc,
                   log, hist, audit>>

CursorFail(c, kind) ==
    /\ pc[c] = "cursor"
    /\ kind \in ErrorKinds
    /\ Throw(c, kind, log[c])
    /\ UNCHANGED <<db, checkedOut, call, q, conn, cursor, pending, rs, result, detail,
                   ret, audit>>

\* cursor.execute(query, params or ())
ExecuteOk(c) ==
    LET st == Cur(c) IN
    /\ pc[c] = "execute"
    /\ ~StatementError(st.sql, st.params)
    /\ ~Blocked(c, st.sql, st.params)
    /\ tables' = IF IsCreate(st.sql) THEN tables \cup {TableOf(st.sql)} ELSE tables
    /\ pending' = [pending EXCEPT ![c] = IF IsInsert(st.sql) THEN <<st.params>> ELSE @]
    /\ rs' = [rs EXCEPT ![c] = ResultSet(st.sql, st.params)]
    /\ pc' = [pc EXCEPT ![c] = IF st.commit THEN "commit" ELSE "fetch"]
    /\ UNCHANGED <<USERS, TRAPED, MESSAGE, checkedOut, call, q, conn, cursor, result,
                   detail, ret, exc, log, hist, audit>>

ExecuteFail(c, kind) ==
    /\ pc[c] = "execute"
    /\ kind \in ErrorKinds
    /\ StatementError(Cur(c).sql, Cur(c).params) => kind = "mysql"
    /\ Throw(c, kind, log[c])
    /\ UNCHANGED <<db, checkedOut, call, q, conn, cursor, pending, rs, result, detail,
                   ret, audit>>

\* conn.commit(): the rows of the transaction become visible
CommitOk(c) ==
    LET t == TableOf(Cur(c).sql)
        wrote == pending[c] # <<>>
    IN
    /\ pc[c] = "commit"
    /\ USERS' = IF t = "USERS" THEN USERS \o pending[c] ELSE USERS
    /\ TRAPED' = IF t = "TRAPED" THEN TRAPED \o pending[c] ELSE TRAPED
    /\ MESSAGE' = IF t = "MESSAGE" THEN MESSAGE \o pending[c] ELSE MESSAGE
    /\ pending' = [pending EXCEPT ![c] = <<>>]
    /\ pc' = [pc EXCEPT ![c] = "fetch"]
    /\ hist' = [d \in Callers |->
                  IF d = c THEN [hist[d] EXCEPT !.stored = wrote]
                  ELSE IF wrote /\ BetweenQueries(d) THEN [hist[d] EXCEPT !.wrote = TRUE]
                  ELSE hist[d]]
    /\ nTrapedStored' = IF wrote /\ t = "TRAPED" THEN nTrapedStored + 1 ELSE nTrapedStored
    /\ UNCHANGED <<tables, checkedOut, call, q, conn, cursor, rs, result, detail, ret,
                   exc, log, passed, nTrapedCalls>>

CommitFail(c, kind) ==
    /\ pc[c] = "commit"
    /\ kind \in ErrorKinds
    /\ Throw(c, kind, log[c])
    /\ UNCHANGED <<db, checkedOut, call, q, conn, cursor, pending, rs, result, detail,
                   ret, audit>>

\* the row cursor.fetchone() gives: the driver's rows are tuples, so the
\* `not isinstance(result, tuple)` wrapping never applies
FetchOne(s) == IF s = <<>> THEN PyNone ELSE PyTuple(Head(s))

\* result = cursor.fetchall() or cursor.fetchone()
FetchOk(c) ==
    /\ pc[c] = "fetch"
    /\ result' = [result EXCEPT ![c] = IF Cur(c).fetchall THEN PyList(rs[c])
                                       ELSE FetchOne(rs[c])]
    /\ pc' = [pc EXCEPT ![c] = "finally"]
    /\ UNCHANGED <<db, checkedOut, call, q, conn, cursor, pending, rs, detail, ret, exc,
                   log, hist, audit>>

FetchFail(c, kind) ==
    /\ pc[c] = "fetch"
    /\ kind \in ErrorKinds
    /\ Throw(c, kind, log[c])
    /\ UNCHANGED <<db, checkedOut, call, q, conn, cursor, pending, rs, result, detail,
                   ret, audit>>

\* (variant: conn.close() nested under `if cursor:`)
ReleasedIfCursor(hasConn, hasCursor) == IF hasConn /\ hasCursor THEN 1 ELSE 0

\* finally: the connections given back to the pool by `if conn: conn.close()`
Released(hasConn, hasCursor) == IF hasConn THEN 1 ELSE 0

\* finally: cursor.close() and conn.close(); closing the pooled connection
\* rolls back what its transaction has not committed
Close(c) ==
    /\ pc[c] = "finally"
    /\ checkedOut' = checkedOut - Released(conn[c], cursor[c])
    /\ conn' = [conn EXCEPT ![c] = FALSE]
    /\ cursor' = [cursor EXCEPT ![c] = FALSE]
    /\ pending' = [pending EXCEPT ![c] = <<>>]
    /\ rs' = [rs EXCEPT ![c] = <<>>]

\* the helper has another execute_query to make after this one
Raised(c) == exc[c] \notin {"none", "handled"}
HasNext(c) == ~Raised(c) /\ q[c] < Len(Statements(call[c]))

\* what the helper logs and returns when an exception leaves execute_query:
\* init_db catches it, the other helpers let it through
RaisedLog(cl) == IF cl.op = "init_db" THEN <<"error">> ELSE << >>
RaisedReturn(cl) == IF cl.op = "init_db" THEN PyNone ELSE PyRaised

\* finally, then `return result`: the helper either calls execute_query for its
\* next statement or logs and returns
Finally(c) ==
    LET cl == call[c]
        raised == Raised(c)
        pair == <<cl.args[1], cl.args[Len(cl.args)]>>
    IN
    /\ Close(c)
    /\ IF HasNext(c)
       THEN /\ detail' = [detail EXCEPT ![c] = IF cl.op \in PairHelpers /\ q[c] = 1
                                               THEN result[c] ELSE @]
            /\ q' = [q EXCEPT ![c] = @ + 1]
            /\ result' = [result EXCEPT ![c] = PyNone]
            /\ pc' = [pc EXCEPT ![c] = "acquire"]
            /\ exc' = [exc EXCEPT ![c] = "none"]
            /\ UNCHANGED <<ret, log, passed>>
       ELSE /\ ret' = [ret EXCEPT ![c] = IF raised THEN RaisedReturn(cl)
                                         ELSE Returns(cl, detail[c], result[c])]
            /\ log' = [log EXCEPT ![c] = @ \o (IF raised THEN RaisedLog(cl)
                                               ELSE HelperLog(cl))]
            /\ pc' = [pc EXCEPT ![c] = "done"]
            /\ passed' = IF cl.op = "insert_into_user" THEN passed \cup {pair} ELSE passed
            /\ UNCHANGED <<q, result, detail, exc>>
    /\ UNCHANGED <<db, call, hist, nTrapedCalls, nTrapedStored>>

(* ------------------------------- Next --------------------------------- *)
\* one step of caller c, which calls the helpers of menu
Step(c, menu) ==
    \/ \E cl \in menu : Call(c, cl)
    \/ GetConnectionOk(c)
    \/ \E k \in ErrorKinds : GetConnectionFail(c, k)
    \/ CursorOk(c)
    \/ \E k \in ErrorKinds : CursorFail(c, k)
    \/ ExecuteOk(c)
    \/ \E k \in ErrorKinds : ExecuteFail(c, k)
    \/ CommitOk(c)
    \/ \E k \in ErrorKinds : CommitFail(c, k)
    \/ FetchOk(c)
    \/ \E k \in ErrorKinds : FetchFail(c, k)
    \/ Finally(c)

OpsOf(ops) == {cl \in Calls : cl.op \in ops}

UserCalls ==
    OpsOf({"init_db", "check_if_user_exists", "insert_into_user",
           "check_user_credential", "get_user_data"})
TrapedCalls ==
    OpsOf({"init_db", "insert_into_traped", "get_traped_data_for_owner",
           "get_traped_data"})
FeedbackCalls == OpsOf({"init_db", "save_feedback", "get_feedback_data"})

\* a reader of the four pair helpers and a writer of the three tables
ReaderCalls == {cl \in OpsOf(PairHelpers) : cl.args \in {<<>>, <<"u1">>}}
WriterCalls ==
    {cl \in OpsOf(InsertHelpers) :
        \A i \in 1..Len(cl.args) : cl.args[i] \notin {"u2", "p2", "m2", NULL}}
\* the calls that insert a user
RaceCalls == {cl \in OpsOf({"insert_into_user"}) : cl.args[2] # NULL}
\* the call every caller makes when the pool is made to run out
PoolCalls == {[op |-> "insert_into_user", args |-> <<"u1", "e1", "p1">>]}

\* a process that starts on a database in which an earlier init_db has created
\* the three tables
InitReady ==
    /\ tables = {"USERS", "TRAPED", "MESSAGE"}
    /\ USERS = <<>>
    /\ TRAPED = <<>>
    /\ MESSAGE = <<>>
    /\ checkedOut = 0
    /\ pc = [c \in Callers |-> "idle"]
    /\ call = [c \in Callers |-> NoCall]
    /\ q = [c \in Callers |-> 1]
    /\ conn = [c \in Callers |-> FALSE]
    /\ cursor = [c \in Callers |-> FALSE]
    /\ pending = [c \in Callers |-> <<>>]
    /\ rs = [c \in Callers |-> <<>>]
    /\ result = [c \in Callers |-> PyNone]
    /\ detail = [c \in Callers |-> PyNone]
    /\ ret = [c \in Callers |-> PyNone]
    /\ exc = [c \in Callers |-> "none"]
    /\ log = [c \in Callers |-> <<>>]
    /\ hist = [c \in Callers |-> Hist0]
    /\ passed = {}
    /\ nTrapedCalls = 0
    /\ nTrapedStored = 0

\* one caller, each helper call made after the one before has returned
NextUsers == Step(1, UserCalls)
NextTraped == Step(1, TrapedCalls)
NextFeedback == Step(1, FeedbackCalls)
\* a caller of the pair helpers beside a caller that inserts
PairMenu(c) == IF c = 1 THEN ReaderCalls ELSE WriterCalls
NextPair == \E c \in {1, 2} : Step(c, PairMenu(c))
\* two callers that insert users
NextRace == \E c \in {1, 2} : Step(c, RaceCalls)
\* more callers than the pool has connections
NextPool == \E c \in Callers : Step(c, PoolCalls)

SpecUsers == Init /\ [][NextUsers]_vars
SpecTraped == Init /\ [][NextTraped]_vars
SpecFeedback == Init /\ [][NextFeedback]_vars
SpecPair == InitReady /\ [][NextPair]_vars
SpecRace == InitReady /\ [][NextRace]_vars
SpecPool == InitReady /\ [][NextPool]_vars

(* ======================== properties of the helpers =================== *)
IsTrue(x) == x.t = "bool" /\ x.v
IsFalse(x) == x.t = "bool" /\ ~x.v
Done(c, op) == pc[c] = "done" /\ call[c].op = op
AllQuiet == \A c \in Callers : Quiet(c)
HasLine(c, level) == \E i \in 1..Len(log[c]) : log[c][i] = level
\* row is one of the rows of the list d
RowIn(row, d) == d.t = "list" /\ \E i \in 1..Len(d.v) : d.v[i] = row
UniqueUID(s) == \A i, j \in 1..Len(s) : s[i][1] = s[j][1] => i = j

\* C1 as stated: once insert_into_user(id, email, password) has returned, every
\* later check_if_user_exists(id) returns True, every later
\* check_user_credential(id, password) returns True and
\* check_user_credential(id, wrong) returns False.
C1_AsStated ==
    \A c \in Callers :
        /\ Done(c, "check_if_user_exists") /\ hist[c].seen # {} => IsTrue(ret[c])
        /\ Done(c, "check_user_credential") /\ call[c].args[2] \in hist[c].seen
              => IsTrue(ret[c])
        /\ Done(c, "check_user_credential") /\ hist[c].seen # {}
              /\ call[c].args[2] \notin hist[c].seen => IsFalse(ret[c])

\* C1 amended: once an insert_into_user(id, email, password) call that stored its
\* row has returned, every later check whose query does not fail answers for that
\* row: check_if_user_exists(id) returns True, check_user_credential(id, password)
\* returns True and check_user_credential(id, wrong) returns False.
C1_StoredUserIsFound ==
    \A c \in Callers :
        ~hist[c].failed =>
            /\ Done(c, "check_if_user_exists") /\ hist[c].known # {} => IsTrue(ret[c])
            /\ Done(c, "check_user_credential") /\ call[c].args[2] \in hist[c].known
                  => IsTrue(ret[c])
            /\ Done(c, "check_user_credential") /\ hist[c].known # {}
                  /\ call[c].args[2] \notin hist[c].known => IsFalse(ret[c])

\* a wrong password is checked against a stored user, by a query that does not fail
C1_Witness ==
    \E c \in Callers :
        /\ Done(c, "check_user_credential")
        /\ ~hist[c].failed
        /\ hist[c].known # {}
        /\ call[c].args[2] \notin hist[c].known
        /\ call[c].args[2] \in hist[c].seen

\* C2: no exception leaves execute_query: whatever step of the try body fails,
\* an except clause handles it, the last line logged is an error and execute_query
\* returns None; no helper sees an exception.
C2_NoErrorReachesCaller ==
    \A c \in Callers :
        /\ exc[c] \in {"none", "handled"}
        /\ ret[c].t # "raised"
        /\ pc[c] = "finally" /\ exc[c] = "handled" =>
              /\ result[c] = PyNone
              /\ log[c] # <<>>
              /\ log[c][Len(log[c])] = "error"

\* get_connection has failed and execute_query is about to return
C2_Witness ==
    \E c \in Callers :
        /\ pc[c] = "finally"
        /\ exc[c] = "handled"
        /\ ~conn[c]
        /\ Len(log[c]) = 2

\* C3: a caller that is in no helper call holds neither a connection nor a cursor,
\* the pool counts exactly the connections the callers hold, and with no call in
\* progress no connection is checked out.
C3_AllReleased ==
    /\ \A c \in Callers : Quiet(c) => ~conn[c] /\ ~cursor[c]
    /\ checkedOut = Cardinality({c \in Callers : conn[c]})
    /\ checkedOut <= pool_size
    /\ AllQuiet => checkedOut = 0

\* every caller has made a call, one that failed and one that stored its row
\* among them, and none is in progress
C3_Witness ==
    /\ \A c \in Callers : pc[c] = "done"
    /\ \E c \in Callers : hist[c].failed /\ ~hist[c].stored
    /\ \E c \in Callers : hist[c].stored

\* C4 as stated: the count get_traped_data returns is the number of
\* insert_into_traped calls made.
C4_AsStated ==
    \A c \in Callers :
        Done(c, "get_traped_data") /\ AllQuiet => ret[c].count = PyInt(nTrapedCalls)

\* C4 amended: with no other call in progress, the count get_traped_data returns is
\* the number of insert_into_traped calls whose row was stored when its count query
\* does not fail, and 0 when it fails.
C4_CountsStoredRows ==
    \A c \in Callers :
        Done(c, "get_traped_data") /\ AllQuiet =>
            ret[c].count = PyInt(IF exc[c] = "none" THEN nTrapedStored ELSE 0)

\* get_traped_data counts one stored row after two insert_into_traped calls
C4_Witness ==
    \E c \in Callers :
        /\ Done(c, "get_traped_data")
        /\ exc[c] = "none"
        /\ nTrapedStored = 1
        /\ nTrapedCalls = 2

\* C5 as stated: check_user_credential(id, password) returns a boolean, True
\* exactly when a USERS row with that id and that password is stored.
C5_AsStated ==
    \A c \in Callers :
        Done(c, "check_user_credential") /\ AllQuiet =>
            /\ ret[c].t = "bool"
            /\ ret[c].v <=> \E i \in 1..Len(USERS) :
                               /\ USERS[i][1] = call[c].args[1]
                               /\ USERS[i][3] = call[c].args[2]

\* C6: init_db makes its three execute_query calls whichever of them fail, and a
\* failure is logged as an error.
C6_AllThreeIssued ==
    \A c \in Callers :
        Done(c, "init_db") =>
            /\ q[c] = 3
            /\ hist[c].failed => HasLine(c, "error")

\* init_db has returned, its first statement failed and its last created its table
C6_Witness ==
    \E c \in Callers :
        /\ Done(c, "init_db")
        /\ hist[c].failed
        /\ "USERS" \notin tables
        /\ "MESSAGE" \in tables

\* C7 as stated: get_feedback_data after save_feedback(row) returns the row among
\* its rows and a count one above that of the get_feedback_data before.
C7_AsStated ==
    \A c \in Callers :
        Done(c, "get_feedback_data") /\ hist[c].fbStage = 3 =>
            /\ RowIn(hist[c].fbRow, ret[c].detail)
            /\ ret[c].count = PyInt(hist[c].fbBase + 1)

\* C7 amended: the same, when save_feedback stored its row and no query of the two
\* get_feedback_data calls failed.
C7_StoredFeedbackIsRead ==
    \A c \in Callers :
        Done(c, "get_feedback_data") /\ hist[c].fbStage = 3
           /\ hist[c].fbClean /\ ~hist[c].failed =>
            /\ RowIn(hist[c].fbRow, ret[c].detail)
            /\ ret[c].count = PyInt(hist[c].fbBase + 1)

\* the second message is saved between two get_feedback_data calls
C7_Witness ==
    \E c \in Callers :
        /\ Done(c, "get_feedback_data")
        /\ hist[c].fbStage = 3
        /\ hist[c].fbClean
        /\ ~hist[c].failed
        /\ hist[c].fbBase = 1

\* C8: a pair helper whose two queries succeed with no row committed between them
\* returns a count equal to the number of its detail rows.
C8_ConsistentWithoutWrite ==
    \A c \in Callers :
        pc[c] = "done" /\ call[c].op \in PairHelpers /\ ~hist[c].failed /\ ~hist[c].wrote
            => /\ ret[c].detail.t = "list"
               /\ ret[c].count = PyInt(Len(ret[c].detail.v))

\* an insert was committed between the two queries of a pair helper, which
\* returns a count that differs from the number of its detail rows
C8_Witness ==
    \E c \in Callers :
        /\ pc[c] = "done"
        /\ call[c].op \in PairHelpers
        /\ ~hist[c].failed
        /\ hist[c].wrote
        /\ ret[c].count # PyInt(Len(ret[c].detail.v))

\* C9: no step changes or removes a stored USERS row, and USERS never holds two
\* rows with one UID.
C9_UsersKeptAndUnique ==
    [][/\ Len(USERS') >= Len(USERS)
       /\ \A i \in 1..Len(USERS) : USERS'[i] = USERS[i]
       /\ UniqueUID(USERS')]_vars

\* two overlapping insert_into_user calls for one UID with different passwords:
\* one has committed its row, the other has failed, and one row is stored
C9_Witness ==
    \E c, d \in Callers :
        /\ call[c].op = "insert_into_user" /\ call[d].op = "insert_into_user"
        /\ call[c].args[1] = call[d].args[1]
        /\ call[c].args[3] # call[d].args[3]
        /\ pc[c] = "fetch" /\ hist[c].stored
        /\ pc[d] = "finally" /\ exc[d] = "handled" /\ cursor[d]
        /\ Len(Where(USERS, call[c].args[1])) = 1

\* C10 as stated: an insert helper whose row was not stored logs an error line and
\* no info line.
C10_AsStated ==
    \A c \in Callers :
        pc[c] = "done" /\ call[c].op \in InsertHelpers /\ ~hist[c].stored =>
            HasLine(c, "error") /\ ~HasLine(c, "info")

====
